---- MODULE Spec2Model ----
(***************************************************************************)
(* The skills resolution and injection pipeline of the frontend agent      *)
(* (agent/src/skills/middleware.py): the session hook before_agent /       *)
(* abefore_agent scans the skill directories and reads the skill files     *)
(* into session state; wrap_model_call / awrap_model_call render the       *)
(* skills documentation and the auto-injected skills into the system       *)
(* prompt of every model request.                                          *)
(*                                                                         *)
(* A text is a sequence of string pieces; concatenation is \o.  A skill    *)
(* file lives at a path [scope, dir]: dir is the position of its           *)
(* subdirectory in the directory listing of the scope root.                *)
(***************************************************************************)
EXTENDS Integers, Sequences, FiniteSets, TLC

VARIABLES
    fs,                  \* the two skill directory roots on disk
    project_skills_dir,  \* self.project_skills_dir: "None" or "set"
    auto_inject_skills,  \* self.auto_inject_skills
    state,               \* the session state (skills_metadata, skills_content)
    pc,                  \* position of the session: idle, inside a hook, inside a model call
    skills,              \* the hook's local variable `skills`
    hook_outcome,        \* how the last hook ended: "none", "returned", "raised", "cancelled"
    last_call,           \* the model call in progress (the request and what was forwarded),
                         \* or the outcome of the last one (the response and what was returned)
    sessions,            \* several sessions served by the one middleware: each its own
                         \* state, position, local `skills` and model call
    build,               \* the build_app tool call: its stage, the scratch directory, the result
    model_calls          \* the last two model calls of an agent run: what came in, what the
                         \* handler was called with, and the skill files as they were then

vars == <<fs, project_skills_dir, auto_inject_skills, state, pc, skills, hook_outcome, last_call,
          sessions, build, model_calls>>

\* ------------------------------------------------------------------ bounds

\* Subdirectories per scope root.
MaxDirs == 2
\* Length of the auto-inject list.
MaxInject == 2
\* Files in the state handed to build_app.
MaxFiles == 2
\* Lines of output of the build step.
MaxLines == 2
\* Warning lines of a long output of the build step: more than the result
\* keeps.
ManyWarnings == 11

SkillNames == {"frontend-design", "api-style"}

\* Sequences over S of length at most n.
SeqUpTo(S, n) == UNION {[1..k -> S] : k \in 0..n}

\* ------------------------------------------------------------- file system

\* What a subdirectory of a scope root holds: no SKILL.md, a SKILL.md whose
\* header is malformed, lacks name, lacks description, or is well formed.
DirKinds == {"nofile", "malformed", "noname", "nodesc", "ok"}

\* What access to the SKILL.md does: "ok", it can be read; "oserror", open()
\* raises OSError (the file is not readable); "decode", read_text raises
\* UnicodeDecodeError; "denied", stat() raises PermissionError (the
\* subdirectory is not searchable).
ReadOutcomes == {"ok", "oserror", "decode", "denied"}

\* The description and the body of a skill file are opaque texts; each file
\* has its own.
DescriptionAt(scope, dir) == "desc-" \o scope \o "-" \o ToString(dir)
BodyAt(scope, dir) == "body-" \o scope \o "-" \o ToString(dir)

\* A subdirectory: its kind, the name its header gives (if any) and the
\* outcome of reading its file.
SkillDir(kind, name, read) == [kind |-> kind, name |-> name, read |-> read]

SkillDirsOf(kinds, reads) ==
    {SkillDir(k, "", "ok") : k \in kinds \cap {"nofile", "malformed", "noname"}}
    \cup {SkillDir("nodesc", n, "ok") : n \in IF "nodesc" \in kinds THEN SkillNames ELSE {}}
    \cup {SkillDir("ok", n, r) : n \in IF "ok" \in kinds THEN SkillNames ELSE {}, r \in reads}

\* A scope root: whether the directory exists, and its subdirectories in
\* directory-listing order.
MissingRoot == [exists |-> FALSE, dirs |-> <<>>]
RootsOf(kinds, reads) ==
    {MissingRoot} \cup {[exists |-> TRUE, dirs |-> ds] : ds \in SeqUpTo(SkillDirsOf(kinds, reads), MaxDirs)}

\* The text of a SKILL.md: the YAML frontmatter, then the body.
Frontmatter(scope, dir, d) ==
    IF d.kind = "malformed" THEN <<"no frontmatter\n">>
    ELSE <<"---\n">>
         \o (IF d.kind \in {"ok", "nodesc"} THEN <<"name: ", d.name, "\n">> ELSE <<>>)
         \o (IF d.kind \in {"ok", "noname"} THEN <<"description: ", DescriptionAt(scope, dir), "\n">> ELSE <<>>)
         \o <<"---\n">>
FileText(scope, dir, d) == Frontmatter(scope, dir, d) \o <<BodyAt(scope, dir)>>

FileAt(path) == fs[path.scope].dirs[path.dir]

\* ------------------------------------------------------------ list_skills

SkillMetadata(name, description, path) ==
    [name |-> name, description |-> description, path |-> path]

\* The skills of one scope root, in directory-listing order: one entry per
\* subdirectory whose SKILL.md can be read and has name and description.
\* A root that is None or does not exist has none.
ScopeSkills(root) ==
    IF root = "None" THEN <<>>
    ELSE
    LET r == fs[root]
        Entry(i) == SkillMetadata(r.dirs[i].name, DescriptionAt(root, i),
                                  [scope |-> root, dir |-> i])
        Good(i) == r.dirs[i].kind = "ok" /\ r.dirs[i].read = "ok"
        F[i \in 0..Len(r.dirs)] ==
            IF i = 0 THEN <<>>
            ELSE IF Good(i) THEN Append(F[i - 1], Entry(i)) ELSE F[i - 1]
    IN  IF r.exists THEN F[Len(r.dirs)] ELSE <<>>

\* Put one skill into the catalog: it replaces the entry of the same name
\* in place, or is appended.
PutSkill(catalog, skill) ==
    IF \E i \in 1..Len(catalog) : catalog[i].name = skill.name
    THEN [i \in 1..Len(catalog) |->
            IF catalog[i].name = skill.name THEN skill ELSE catalog[i]]
    ELSE Append(catalog, skill)

MergeSkills(catalog, more) ==
    LET F[i \in 0..Len(more)] ==
            IF i = 0 THEN catalog ELSE PutSkill(F[i - 1], more[i])
    IN  F[Len(more)]

\* list_skills(user_skills_dir=..., project_skills_dir=...): the user-scope
\* catalog first, then the project-scope skills put into it.
list_skills(user_skills_dir, project_dir) ==
    MergeSkills(MergeSkills(<<>>, ScopeSkills(user_skills_dir)), ScopeSkills(project_dir))

\* The roots the middleware was constructed with.
SelfSkillsDir == "user"
SelfProjectSkillsDir == IF project_skills_dir = "set" THEN "project" ELSE "None"

\* --------------------------------------------------- _load_skill_contents

SkillContent(name, description, content) ==
    [name |-> name, description |-> description, content |-> content]

EmptyDict == [n \in {} |-> <<>>]

\* real_path.exists(): "true", "false", or "raised". Path.exists() returns
\* False when stat() fails with ENOENT, ENOTDIR, EBADF or ELOOP; on any
\* other OSError, such as the PermissionError of a directory that is not
\* searchable, it re-raises or returns False, depending on the interpreter
\* (stat_raises).
PathExists(path, stat_raises) ==
    IF ~fs[path.scope].exists \/ path.dir \notin 1..Len(fs[path.scope].dirs) THEN "false"
    ELSE IF FileAt(path).read = "denied" THEN (IF stat_raises THEN "raised" ELSE "false")
    ELSE IF FileAt(path).kind = "nofile" THEN "false"
    ELSE "true"

\* Mutant: the metadata header is stripped from the text that was read.
ReadTextBody(path) ==
    IF FileAt(path).read = "ok"
    THEN [raised |-> "none", text |-> <<BodyAt(path.scope, path.dir)>>]
    ELSE [raised |-> IF FileAt(path).read = "decode" THEN "decode" ELSE "oserror",
          text |-> <<>>]

\* real_path.read_text(encoding="utf-8"): the text, or the exception raised.
ReadText(path) ==
    IF FileAt(path).read = "ok"
    THEN [raised |-> "none", text |-> FileText(path.scope, path.dir, FileAt(path))]
    ELSE [raised |-> IF FileAt(path).read = "decode" THEN "decode" ELSE "oserror",
          text |-> <<>>]

\* Mutant: the except clause misses UnicodeDecodeError.
CaughtOSErrorOnly == {"oserror"}

\* except (OSError, UnicodeDecodeError)
CaughtExceptions == {"oserror", "decode"}

\* Mutant: the content is stored with the skill's name as its description.
LoadOneNameAsDescription(acc, skill, stat_raises) ==
    IF acc.raised = "none" /\ PathExists(skill.path, stat_raises) = "true"
       /\ ReadText(skill.path).raised = "none"
    THEN [raised |-> "none",
          contents |-> [n \in DOMAIN acc.contents \cup {skill.name} |->
            IF n = skill.name
            THEN SkillContent(skill.name, skill.name, ReadText(skill.path).text)
            ELSE acc.contents[n]]]
    ELSE acc

\* One iteration of the loop over the skills; acc is the dict so far, or the
\* exception that left the loop. exists() is called outside the try block.
LoadOne(acc, skill, stat_raises) ==
    IF acc.raised # "none" THEN acc
    ELSE LET e == PathExists(skill.path, stat_raises)
         IN  IF e = "raised" THEN [raised |-> "oserror", contents |-> acc.contents]
             ELSE IF e = "false" THEN acc
             ELSE LET r == ReadText(skill.path)
                  IN  IF r.raised = "none"
                      THEN [raised |-> "none",
                            contents |-> [n \in DOMAIN acc.contents \cup {skill.name} |->
                               IF n = skill.name
                               THEN SkillContent(skill.name, skill.description, r.text)
                               ELSE acc.contents[n]]]
                      ELSE IF r.raised \in CaughtExceptions
                      THEN acc
                      ELSE [raised |-> r.raised, contents |-> acc.contents]

\* The dict returned, or the exception raised.
_load_skill_contents(catalog, stat_raises) ==
    LET F[i \in 0..Len(catalog)] ==
            IF i = 0 THEN [raised |-> "none", contents |-> EmptyDict]
            ELSE LoadOne(F[i - 1], catalog[i], stat_raises)
    IN  F[Len(catalog)]

\* ------------------------------------------------------------ session hook

StateKeys == {"skills_metadata", "skills_content"}
EmptyState == [keys |-> {}, skills_metadata |-> <<>>, skills_content |-> EmptyDict]

\* Mutant: the update is merged into what the state holds already.
SkillsStateUpdateMerged(metadata, content) ==
    [keys |-> StateKeys,
     skills_metadata |-> state.skills_metadata \o metadata,
     skills_content |-> [n \in DOMAIN state.skills_content \cup DOMAIN content |->
                           IF n \in DOMAIN content THEN content[n] ELSE state.skills_content[n]]]

\* The state update a hook returns, applied to the session state.
SkillsStateUpdate(metadata, content) ==
    [keys |-> StateKeys, skills_metadata |-> metadata, skills_content |-> content]

\* Mutants of the hook's call of the loader: the two roots swapped; the
\* project root not passed.
HookListSkillsSwapped == list_skills(SelfProjectSkillsDir, SelfSkillsDir)
HookListSkillsUserOnly == list_skills(SelfSkillsDir, "None")

\* The hook's call of the loader.
HookListSkills == list_skills(SelfSkillsDir, SelfProjectSkillsDir)

\* The second half of a hook: the contents are read and the update is
\* returned, or the exception propagates and the state stays as it was.
HookLoad ==
    \E stat_raises \in BOOLEAN :
        LET r == _load_skill_contents(skills, stat_raises)
        IN  /\ IF r.raised = "none"
               THEN /\ state' = SkillsStateUpdate(skills, r.contents)
                    /\ hook_outcome' = "returned"
               ELSE /\ state' = state
                    /\ hook_outcome' = "raised"
            /\ pc' = "idle"
            /\ skills' = <<>>

before_agent_list ==
    /\ pc = "idle"
    /\ skills' = HookListSkills
    /\ pc' = "sync_listed"
    /\ UNCHANGED <<fs, project_skills_dir, auto_inject_skills, state, hook_outcome, last_call, sessions, build, model_calls>>

before_agent_load ==
    /\ pc = "sync_listed"
    /\ HookLoad
    /\ UNCHANGED <<fs, project_skills_dir, auto_inject_skills, last_call, sessions, build, model_calls>>

\* Mutant: the catalog is written to the state as soon as it is listed.
ABeforeAgentListStoresCatalog ==
    /\ pc = "idle"
    /\ skills' = HookListSkills
    /\ pc' = "async_listed"
    /\ state' = [state EXCEPT !.keys = StateKeys, !.skills_metadata = HookListSkills]
    /\ UNCHANGED <<fs, project_skills_dir, auto_inject_skills, hook_outcome, last_call, sessions, build, model_calls>>

\* await asyncio.to_thread(list_skills, ...)
abefore_agent_list ==
    /\ pc = "idle"
    /\ skills' = HookListSkills
    /\ pc' = "async_listed"
    /\ UNCHANGED <<fs, project_skills_dir, auto_inject_skills, state, hook_outcome, last_call, sessions, build, model_calls>>

\* await asyncio.to_thread(self._load_skill_contents, skills)
abefore_agent_load ==
    /\ pc = "async_listed"
    /\ HookLoad
    /\ UNCHANGED <<fs, project_skills_dir, auto_inject_skills, last_call, sessions, build, model_calls>>

\* The task running abefore_agent is cancelled while it waits for one of
\* its two offloaded steps: CancelledError is raised at the await, the
\* locals are dropped and no update is returned.
abefore_agent_cancel ==
    /\ pc \in {"idle", "async_listed"}
    /\ pc' = "idle"
    /\ skills' = <<>>
    /\ hook_outcome' = "cancelled"
    /\ UNCHANGED <<fs, project_skills_dir, auto_inject_skills, state, last_call, sessions, build, model_calls>>

\* --------------------------------------------------------- prompt injector

\* The template; "{skills_list}" is its one substitution point.
SKILLS_SYSTEM_PROMPT ==
    <<"\n\n", "## Skills System", "\n\n",
      "You have access to a skills library that provides specialized capabilities and domain knowledge.",
      "\n\n", "**Available Skills:**", "\n\n",
      "{skills_list}",
      "\n\n", "**How to Use Skills:**", "\n\n",
      "When a task matches a skill's domain, the full skill instructions will be provided to you automatically based on context. Skills provide:",
      "\n", "- Step-by-step workflows",
      "\n", "- Best practices and patterns",
      "\n", "- Domain-specific guidance",
      "\n\n", "**When Skills Apply:**",
      "\n", "- When the user's request matches a skill's domain (e.g., frontend work -> frontend-design skill)",
      "\n", "- When you need specialized knowledge or structured workflows",
      "\n", "- When a skill provides proven patterns for complex tasks",
      "\n\n", "Remember: Skills are tools to make you more capable and consistent!",
      "\n">>

\* The texts of a sequence of texts, one after the other.
Concat(texts) ==
    LET F[i \in 0..Len(texts)] == IF i = 0 THEN <<>> ELSE F[i - 1] \o texts[i]
    IN  F[Len(texts)]

\* sep.join(texts)
Join(sep, texts) ==
    LET F[i \in 0..Len(texts)] ==
            IF i = 0 THEN <<>>
            ELSE IF i = 1 THEN texts[1]
            ELSE F[i - 1] \o sep \o texts[i]
    IN  F[Len(texts)]

\* template.format(skills_list=skills_list)
Format(template, skills_list) ==
    Concat([i \in 1..Len(template) |->
              IF template[i] = "{skills_list}" THEN skills_list ELSE <<template[i]>>])

\* state.get(key, default)
StateGet(st, key, default) == IF key \in st.keys THEN st[key] ELSE default

\* Mutant: the empty catalog is joined like any other.
FormatSkillsListNoPlaceholder(catalog) ==
    Join(<<"\n">>, [i \in 1..Len(catalog) |->
                      <<"- **", catalog[i].name, "**: ", catalog[i].description>>])

\* Mutant: the lines are joined without the line break.
FormatSkillsListNoBreak(catalog) ==
    IF catalog = <<>> THEN <<"(No skills available yet.)">>
    ELSE Join(<<>>, [i \in 1..Len(catalog) |->
                      <<"- **", catalog[i].name, "**: ", catalog[i].description>>])

_format_skills_list(catalog) ==
    IF catalog = <<>> THEN <<"(No skills available yet.)">>
    ELSE Join(<<"\n">>, [i \in 1..Len(catalog) |->
                          <<"- **", catalog[i].name, "**: ", catalog[i].description>>])

\* Mutant: the sections are written in a fixed order of the names, not in
\* the order of the auto-inject list.
FormatInjectedSkillsCatalogOrder(skills_content) ==
    LET listed == {auto_inject_skills[i] : i \in 1..Len(auto_inject_skills)}
        order == <<"frontend-design", "api-style">>
    IN  Concat([i \in 1..Len(order) |->
                  IF order[i] \in listed /\ order[i] \in DOMAIN skills_content
                  THEN <<"\n\n", "## Skill: ", skills_content[order[i]].name, "\n\n">>
                       \o skills_content[order[i]].content
                  ELSE <<>>])

\* Mutant: a listed name is written without the test that it has content.
FormatInjectedSkillsUnchecked(skills_content) ==
    Concat([i \in 1..Len(auto_inject_skills) |->
              <<"\n\n", "## Skill: ", auto_inject_skills[i], "\n\n">>
              \o (IF auto_inject_skills[i] \in DOMAIN skills_content
                  THEN skills_content[auto_inject_skills[i]].content ELSE <<>>)])

_format_injected_skills(skills_content) ==
    IF auto_inject_skills = <<>> THEN <<>>
    ELSE Concat([i \in 1..Len(auto_inject_skills) |->
                   IF auto_inject_skills[i] \in DOMAIN skills_content
                   THEN LET skill == skills_content[auto_inject_skills[i]]
                        IN  <<"\n\n", "## Skill: ", skill.name, "\n\n">> \o skill.content
                   ELSE <<>>])

\* A system prompt is None or a text; `if request.system_prompt` holds of a
\* non-empty text.
NoneValue == [none |-> TRUE, text |-> <<>>]
Str(text) == [none |-> FALSE, text |-> text]
Truthy(prompt) == ~prompt.none /\ prompt.text # <<>>

\* Mutants of the composition: the separator dropped; the separator added
\* also when there is no system prompt.
ComposeNoSeparator(system_prompt, skills_section, injected_skills) ==
    IF Truthy(system_prompt)
    THEN system_prompt.text \o skills_section \o injected_skills
    ELSE skills_section \o injected_skills

ComposeAlwaysSeparator(system_prompt, skills_section, injected_skills) ==
    (IF system_prompt.none THEN <<>> ELSE system_prompt.text)
    \o <<"\n\n">> \o skills_section \o injected_skills

\* if request.system_prompt: ... else: ...
Compose(system_prompt, skills_section, injected_skills) ==
    IF Truthy(system_prompt)
    THEN system_prompt.text \o <<"\n\n">> \o skills_section \o injected_skills
    ELSE skills_section \o injected_skills

\* Mutant: the listing is rendered from the skill directories as they are
\* at the time of the call, not from the session state.
WrapSystemPromptFromDisk(request) ==
    LET skills_content == StateGet(request.state, "skills_content", EmptyDict)
        skills_list == _format_skills_list(HookListSkills)
        skills_section == Format(SKILLS_SYSTEM_PROMPT, skills_list)
        injected_skills == _format_injected_skills(skills_content)
    IN  Compose(request.system_prompt, skills_section, injected_skills)

\* The system prompt wrap_model_call computes for a request.
WrapSystemPrompt(request) ==
    LET skills_metadata == StateGet(request.state, "skills_metadata", <<>>)
        skills_content == StateGet(request.state, "skills_content", EmptyDict)
        skills_list == _format_skills_list(skills_metadata)
        skills_section == Format(SKILLS_SYSTEM_PROMPT, skills_list)
        injected_skills == _format_injected_skills(skills_content)
    IN  Compose(request.system_prompt, skills_section, injected_skills)

\* Mutant: the async copy leaves out the auto-injected skills.
AWrapSystemPromptNoInjection(request) ==
    LET skills_metadata == StateGet(request.state, "skills_metadata", <<>>)
        skills_list == _format_skills_list(skills_metadata)
        skills_section == Format(SKILLS_SYSTEM_PROMPT, skills_list)
    IN  Compose(request.system_prompt, skills_section, <<>>)

\* The system prompt awrap_model_call computes for a request.
AWrapSystemPrompt(request) ==
    LET skills_metadata == StateGet(request.state, "skills_metadata", <<>>)
        skills_content == StateGet(request.state, "skills_content", EmptyDict)
        skills_list == _format_skills_list(skills_metadata)
        skills_section == Format(SKILLS_SYSTEM_PROMPT, skills_list)
        injected_skills == _format_injected_skills(skills_content)
    IN  Compose(request.system_prompt, skills_section, injected_skills)

\* Mutant: the forwarded request is built anew and carries no messages.
OverrideDropsMessages(request, system_prompt) ==
    [system_prompt |-> Str(system_prompt), messages |-> "", state |-> request.state]

\* request.override(system_prompt=system_prompt)
Override(request, system_prompt) == [request EXCEPT !.system_prompt = Str(system_prompt)]

\* The requests the framework makes in the session: any system prompt, the
\* session state as it is.
SystemPrompts == {NoneValue, Str(<<>>), Str(<<"You are a frontend agent.">>)}
Requests == [system_prompt : SystemPrompts, messages : {"messages"}, state : {state}]

\* What the handler answers.
Responses == {"response-a", "response-b"}

\* No model call was made yet.
NoCall == [kind |-> "none"]

\* The handler is running: the incoming request, the request it was called
\* with, and the number of times it was called.
HandlerCall(request, forwarded) ==
    [kind |-> "call", request |-> request, forwarded |-> forwarded, handler_calls |-> 1]

\* Mutant: the response is wrapped before it is returned.
ReturnedWrapped(call, response) ==
    [kind |-> "returned", handler_calls |-> call.handler_calls,
     response |-> response, returned |-> "wrapped"]

\* return handler(...): the model call returns what the handler answered.
Returned(call, response) ==
    [kind |-> "returned", handler_calls |-> call.handler_calls,
     response |-> response, returned |-> response]

\* Mutant: the contents are taken out of the state once they were injected.
WrapModelCallPopsContent ==
    /\ pc = "idle"
    /\ \E request \in Requests :
         last_call' = HandlerCall(request, Override(request, WrapSystemPrompt(request)))
    /\ pc' = "sync_call"
    /\ state' = [state EXCEPT !.skills_content = EmptyDict]
    /\ UNCHANGED <<fs, project_skills_dir, auto_inject_skills, skills, hook_outcome, sessions, build, model_calls>>

\* wrap_model_call up to its call of the handler: the handler is running
\* with the forwarded request.
wrap_model_call ==
    /\ pc = "idle"
    /\ \E request \in Requests :
         last_call' = HandlerCall(request, Override(request, WrapSystemPrompt(request)))
    /\ pc' = "sync_call"
    /\ UNCHANGED <<fs, project_skills_dir, auto_inject_skills, state, skills, hook_outcome, sessions, build, model_calls>>

\* The handler answers and wrap_model_call returns.
wrap_model_return ==
    /\ pc = "sync_call"
    /\ \E response \in Responses : last_call' = Returned(last_call, response)
    /\ pc' = "idle"
    /\ UNCHANGED <<fs, project_skills_dir, auto_inject_skills, state, skills, hook_outcome, sessions, build, model_calls>>

awrap_model_call ==
    /\ pc = "idle"
    /\ \E request \in Requests :
         last_call' = HandlerCall(request, Override(request, AWrapSystemPrompt(request)))
    /\ pc' = "async_call"
    /\ UNCHANGED <<fs, project_skills_dir, auto_inject_skills, state, skills, hook_outcome, sessions, build, model_calls>>

awrap_model_return ==
    /\ pc = "async_call"
    /\ \E response \in Responses : last_call' = Returned(last_call, response)
    /\ pc' = "idle"
    /\ UNCHANGED <<fs, project_skills_dir, auto_inject_skills, state, skills, hook_outcome, sessions, build, model_calls>>

\* ------------------------------------------------------------- agent run

\* A model call of the run, as the handler saw it: the incoming request, the
\* request the handler was called with, and what disk held at that time.
ModelCall(request, forwarded) == [request |-> request, forwarded |-> forwarded, disk |-> fs]

\* The run keeps its last two model calls.
LastTwo(calls) == IF Len(calls) > 2 THEN Tail(calls) ELSE calls

RunFrame == UNCHANGED <<fs, project_skills_dir, auto_inject_skills, state, pc, skills,
                        hook_outcome, last_call, sessions, build>>

\* Mutant: the system prompt is assigned to the incoming request, which the
\* framework uses again for the next model call of the run.
RunWrapModelCallAltersRequest ==
    /\ pc = "idle"
    /\ \E request \in Requests :
         LET incoming == IF model_calls = <<>> THEN request
                         ELSE [request EXCEPT !.system_prompt =
                                  model_calls[Len(model_calls)].forwarded.system_prompt]
         IN  model_calls' = LastTwo(Append(model_calls,
                 ModelCall(incoming, Override(incoming, WrapSystemPrompt(incoming)))))
    /\ RunFrame

\* wrap_model_call as one step of the agent loop: the handler is called
\* with the forwarded request and answers.
run_wrap_model_call ==
    /\ pc = "idle"
    /\ \E request \in Requests :
         model_calls' = LastTwo(Append(model_calls,
             ModelCall(request, Override(request, WrapSystemPrompt(request)))))
    /\ RunFrame

\* awrap_model_call as one step of the agent loop.
run_awrap_model_call ==
    /\ pc = "idle"
    /\ \E request \in Requests :
         model_calls' = LastTwo(Append(model_calls,
             ModelCall(request, Override(request, AWrapSystemPrompt(request)))))
    /\ RunFrame

\* -------------------------------------------- other actors on the file system

OkFiles == {p \in {[scope |-> s, dir |-> d] : s \in {"user", "project"}, d \in 1..MaxDirs} :
              /\ p.dir \in 1..Len(fs[p.scope].dirs)
              /\ FileAt(p).kind = "ok"
              /\ FileAt(p).read = "ok"}

SetFile(p, d) == fs' = [fs EXCEPT ![p.scope].dirs[p.dir] = d]

\* Another actor deletes a SKILL.md, makes it unreadable, overwrites it
\* with bytes that are not UTF-8, or makes its subdirectory unsearchable.
env_delete ==
    /\ \E p \in OkFiles : SetFile(p, SkillDir("nofile", "", "ok"))
    /\ UNCHANGED <<project_skills_dir, auto_inject_skills, state, pc, skills, hook_outcome, last_call,
                 sessions, build, model_calls>>

env_chmod ==
    /\ \E p \in OkFiles : SetFile(p, [FileAt(p) EXCEPT !.read = "oserror"])
    /\ UNCHANGED <<project_skills_dir, auto_inject_skills, state, pc, skills, hook_outcome, last_call,
                 sessions, build, model_calls>>

env_corrupt ==
    /\ \E p \in OkFiles : SetFile(p, [FileAt(p) EXCEPT !.read = "decode"])
    /\ UNCHANGED <<project_skills_dir, auto_inject_skills, state, pc, skills, hook_outcome, last_call,
                 sessions, build, model_calls>>

env_chmod_dir ==
    /\ \E p \in OkFiles : SetFile(p, [FileAt(p) EXCEPT !.read = "denied"])
    /\ UNCHANGED <<project_skills_dir, auto_inject_skills, state, pc, skills, hook_outcome, last_call,
                 sessions, build, model_calls>>

\* ------------------------------------------- several sessions, one middleware

\* The sessions the one SkillsMiddleware instance serves.
SessionIds == {"session-a", "session-b"}

\* A session that has not started: empty state, no hook and no model call
\* in progress.
IdleSession == [state |-> EmptyState, pc |-> "idle", skills |-> <<>>, last_call |-> NoCall]

\* The requests the framework makes in session s: any system prompt, the
\* state of that session.
SessionRequests(s) ==
    [system_prompt : SystemPrompts, messages : {"messages"}, state : {sessions[s].state}]

\* The first half of a hook in session s: the local `skills` is bound.
SessionList(s, listed) ==
    /\ sessions[s].pc = "idle"
    /\ sessions' = [sessions EXCEPT ![s].skills = HookListSkills, ![s].pc = listed]

\* Mutant: the hook keeps what it loaded on the middleware, where every
\* session sees it.
SessionLoadShared(s, listed) ==
    /\ sessions[s].pc = listed
    /\ \E stat_raises \in BOOLEAN :
         LET r == _load_skill_contents(sessions[s].skills, stat_raises)
         IN  sessions' = [t \in SessionIds |->
                 [sessions[t] EXCEPT
                    !.state = IF r.raised = "none"
                              THEN SkillsStateUpdate(sessions[s].skills, r.contents)
                              ELSE @,
                    !.pc = IF t = s THEN "idle" ELSE @,
                    !.skills = IF t = s THEN <<>> ELSE @]]

\* The second half: the hook returns its update for the state of session s,
\* or raises.
SessionLoad(s, listed) ==
    /\ sessions[s].pc = listed
    /\ \E stat_raises \in BOOLEAN :
         LET r == _load_skill_contents(sessions[s].skills, stat_raises)
         IN  sessions' = [sessions EXCEPT
                 ![s].state = IF r.raised = "none"
                              THEN SkillsStateUpdate(sessions[s].skills, r.contents)
                              ELSE @,
                 ![s].pc = "idle",
                 ![s].skills = <<>>]

SessionFrame == UNCHANGED <<fs, project_skills_dir, auto_inject_skills, state, pc, skills,
                            hook_outcome, last_call, build, model_calls>>

session_before_agent_list(s) == SessionList(s, "sync_listed") /\ SessionFrame
session_before_agent_load(s) == SessionLoad(s, "sync_listed") /\ SessionFrame
session_abefore_agent_list(s) == SessionList(s, "async_listed") /\ SessionFrame
session_abefore_agent_load(s) == SessionLoad(s, "async_listed") /\ SessionFrame

session_wrap_model_call(s) ==
    /\ sessions[s].pc = "idle"
    /\ \E request \in SessionRequests(s) :
         sessions' = [sessions EXCEPT
             ![s].last_call = HandlerCall(request, Override(request, WrapSystemPrompt(request))),
             ![s].pc = "sync_call"]
    /\ SessionFrame

session_awrap_model_call(s) ==
    /\ sessions[s].pc = "idle"
    /\ \E request \in SessionRequests(s) :
         sessions' = [sessions EXCEPT
             ![s].last_call = HandlerCall(request, Override(request, AWrapSystemPrompt(request))),
             ![s].pc = "async_call"]
    /\ SessionFrame

\* The handler of the model call of session s answers and the call
\* returns; the session keeps nothing of it.
session_model_return(s) ==
    /\ sessions[s].pc \in {"sync_call", "async_call"}
    /\ sessions' = [sessions EXCEPT ![s].last_call = NoCall, ![s].pc = "idle"]
    /\ SessionFrame

\* ------------------------------------------------------------- build_app

\* No build_app call was made.
NoBuild == [pc |-> "none"]

\* A path of the state's virtual file system: a prefix and the components
\* after it. No component sequence begins with "app" or "memory", so the
\* path starts with "/app/" or "/memory/" exactly when that is its prefix.
StatePaths ==
    {[prefix |-> "/app/", parts |-> <<"package.json">>],
     [prefix |-> "/", parts |-> <<"package.json">>],
     [prefix |-> "/memory/", parts |-> <<"package.json">>],
     [prefix |-> "/app/", parts |-> <<"package.json", "x.js">>],
     [prefix |-> "/", parts |-> <<"page.tsx">>]}

\* What the state holds for a path: a string, a dict with "content" (a list
\* of lines), or something else.
FileDataKinds == {"str", "dict", "other"}

\* runtime.state["files"]: the items in dict order, the paths distinct.
StateFileSets ==
    {f \in SeqUpTo(StatePaths \X FileDataKinds, MaxFiles) :
        \A i, j \in 1..Len(f) : i # j => f[i][1] # f[j][1]}

\* The content written for a path: the string, or the lines joined.
ContentOf(path, kind) ==
    IF kind = "dict" THEN Join(<<"\n">>, <<<<"line 1 of ", path.prefix, path.parts[1]>>,
                                           <<"line 2">>>>)
    ELSE <<"text of ", path.prefix, path.parts[1]>>

\* clean_path, as the components below the scratch directory: "/app/" is
\* stripped, or else a leading "/"; what is left of "/memory/x" is
\* "memory/x".
CleanPath(path) ==
    IF path.prefix = "/memory/" THEN <<"memory">> \o path.parts ELSE path.parts

\* The scratch directory: what exists below it, by path; a directory, or a
\* file with its content.
EmptyDir == [p \in {} |-> <<>>]
Directory == [dir |-> TRUE, content |-> <<>>]
RegularFile(content) == [dir |-> FALSE, content |-> content]
ParentDirs(parts) == {SubSeq(parts, 1, k) : k \in 1..(Len(parts) - 1)}

\* What makes a write fail from outside the file set: nothing, the scratch
\* directory is gone (FileNotFoundError), the disk is full or the like
\* (another OSError).
WriteFaults == {"none", "FileNotFoundError", "Exception"}

\* A write: the path below the scratch directory and the content.
Written(at, content) == [at |-> at, content |-> content]

\* Mutant: the files of the agent's memory are written like the others.
WriteOneWithMemory(acc, item, fault) ==
    LET path == item[1]
        kind == item[2]
        clean == CleanPath(path)
        tree == acc.tree
    IN  IF acc.raised # "none" THEN acc
        ELSE IF kind = "other" THEN acc
        ELSE IF fault # "none" THEN [acc EXCEPT !.raised = fault]
        ELSE IF \E d \in ParentDirs(clean) : d \in DOMAIN tree /\ ~tree[d].dir
             THEN [acc EXCEPT !.raised = "Exception"]
        ELSE LET made == [p \in DOMAIN tree \cup ParentDirs(clean) |->
                            IF p \in DOMAIN tree THEN tree[p] ELSE Directory]
             IN  IF clean \in DOMAIN made /\ made[clean].dir
                 THEN [acc EXCEPT !.raised = "Exception", !.tree = made]
                 ELSE [raised |-> "none",
                       tree |-> [p \in DOMAIN made \cup {clean} |->
                                   IF p = clean THEN RegularFile(ContentOf(path, kind))
                                   ELSE made[p]],
                       written |-> Append(acc.written, Written(clean, ContentOf(path, kind)))]

\* One iteration of the loop that writes the files; acc is the scratch
\* directory so far and the writes made, or the exception that left the
\* loop. os.makedirs raises when a parent is a file, open() when the path is
\* a directory, and either raises when the write fails from outside (fault).
WriteOne(acc, item, fault) ==
    LET path == item[1]
        kind == item[2]
        clean == CleanPath(path)
        tree == acc.tree
    IN  IF acc.raised # "none" THEN acc
        ELSE IF kind = "other" THEN acc
        ELSE IF path.prefix = "/memory/" THEN acc
        ELSE IF fault # "none" THEN [acc EXCEPT !.raised = fault]
        ELSE IF \E d \in ParentDirs(clean) : d \in DOMAIN tree /\ ~tree[d].dir
             THEN [acc EXCEPT !.raised = "Exception"]
        ELSE LET made == [p \in DOMAIN tree \cup ParentDirs(clean) |->
                            IF p \in DOMAIN tree THEN tree[p] ELSE Directory]
             IN  IF clean \in DOMAIN made /\ made[clean].dir
                 THEN [acc EXCEPT !.raised = "Exception", !.tree = made]
                 ELSE [raised |-> "none",
                       tree |-> [p \in DOMAIN made \cup {clean} |->
                                   IF p = clean THEN RegularFile(ContentOf(path, kind))
                                   ELSE made[p]],
                       written |-> Append(acc.written, Written(clean, ContentOf(path, kind)))]

\* The loop over state_files.items(); the write of the file at fault_at
\* fails from outside with `fault`.
WriteFiles(state_files, fault_at, fault) ==
    LET F[i \in 0..Len(state_files)] ==
            IF i = 0 THEN [raised |-> "none", tree |-> EmptyDir, written |-> <<>>]
            ELSE WriteOne(F[i - 1], state_files[i], IF i = fault_at THEN fault ELSE "none")
    IN  F[Len(state_files)]

\* The output of a step (stdout + stderr) as lines: `tail` is what the last
\* 2000 (install) or 5000 (build) characters hold, `overflow` what comes
\* before them; the cut falls between two lines.
Output(overflow, tail) == [overflow |-> overflow, tail |-> tail]
FullText(output) == output.overflow \o output.tail
\* output[-n:] if len(output) > n else output
LastChars(output) == output.tail

\* The lines a build step prints; one of them is indented.
BuildLines ==
    {"Type error: Cannot find name 'x'",
     "  warn  - Compiled with warnings",
     "Error: Build failed"}

\* line.strip()
Strip(line) ==
    IF line = "  warn  - Compiled with warnings" THEN "warn  - Compiled with warnings" ELSE line

\* The words the extraction looks for that the line, lower-cased, holds.
Marks(line) ==
    IF line = "Type error: Cannot find name 'x'" THEN {"error", "cannot find"}
    ELSE IF line = "  warn  - Compiled with warnings" THEN {"warn"}
    ELSE IF line = "Error: Build failed" THEN {"error"}
    ELSE {}

IsErrorLine(line) ==
    /\ "error" \in Marks(line)
    /\ Marks(line) \cap {"ts(", "typescript", "module not found", "cannot find"} # {}
IsWarningLine(line) == ~IsErrorLine(line) /\ "warn" \in Marks(line)

\* The errors and the warnings of a build output, each line stripped.
ExtractErrors(lines) ==
    LET kept == SelectSeq(lines, IsErrorLine)
    IN  [i \in 1..Len(kept) |-> Strip(kept[i])]
ExtractWarnings(lines) ==
    LET kept == SelectSeq(lines, IsWarningLine)
    IN  [i \in 1..Len(kept) |-> Strip(kept[i])]

\* Mutant: every warning is returned.
FirstTenAll(list) == list

\* warnings[:10]
FirstTen(list) == SubSeq(list, 1, IF Len(list) > 10 THEN 10 ELSE Len(list))

InstallOutputs ==
    {Output(<<>>, <<"added 120 packages">>),
     Output(<<"npm WARN deprecated x">>, <<"npm ERR! code ERESOLVE">>)}
\* The outputs of the build step: short ones, and a long one with an error
\* line and many warning lines.
BuildOutputs ==
    {Output(o, t) : o \in {<<>>, <<"> next build">>}, t \in SeqUpTo(BuildLines, MaxLines)}
    \cup {Output(<<"Type error: Cannot find name 'x'">>,
                 [i \in 1..ManyWarnings |-> "  warn  - Compiled with warnings"])}

\* What subprocess.run does: the step exits with a return code and its
\* output, or run raises (the step timed out, npm is not there, another
\* exception).
StepExceptions == {"TimeoutExpired", "FileNotFoundError", "Exception"}
Exited(returncode, output) == [kind |-> "exited", returncode |-> returncode, output |-> output]
Raised(exc) == [kind |-> "raised", exc |-> exc]
NotRun == [kind |-> "not run"]
StepOutcomes(outputs) ==
    {Exited(rc, out) : rc \in {0, 1}, out \in outputs} \cup {Raised(e) : e \in StepExceptions}

\* The dict build_app returns; a message is a text.
Result(success, install_output, build_output, errors, warnings) ==
    [success |-> success, install_output |-> install_output, build_output |-> build_output,
     errors |-> errors, warnings |-> warnings]
Failure(message) == Result(FALSE, <<>>, <<>>, <<message>>, <<>>)

NoFilesResult == Failure(<<"No files found in state. Create some files first.">>)
NoPackageJsonResult == Failure(<<"package.json not found. Cannot build without it.">>)
InstallFailedResult(install_output) ==
    Result(FALSE, install_output, <<>>, <<<<"npm install failed:\n">> \o install_output>>, <<>>)
\* Mutant: no clause for the other exceptions; such an exception leaves
\* build_app.
ExceptionResultNoGenericClause(exc) ==
    IF exc = "TimeoutExpired"
    THEN Failure(<<"Build timed out. The build process took too long.">>)
    ELSE IF exc = "FileNotFoundError"
    THEN Failure(<<"npm not found. Make sure Node.js and npm are installed.">>)
    ELSE [kind |-> "propagated", exc |-> exc]

\* The three except clauses, in their order: what is returned for an
\* exception raised inside the try block.
ExceptionResult(exc) ==
    IF exc = "TimeoutExpired"
    THEN Failure(<<"Build timed out. The build process took too long.">>)
    ELSE IF exc = "FileNotFoundError"
    THEN Failure(<<"npm not found. Make sure Node.js and npm are installed.">>)
    ELSE Failure(<<"Build error: ", exc>>)
BuildResult(install_output, build_result) ==
    LET lines == FullText(build_result.output)
        errors == ExtractErrors(lines)
        warnings == ExtractWarnings(lines)
        success == build_result.returncode = 0
    IN  Result(success, LastChars(install_output), LastChars(build_result.output),
               IF ~success THEN errors ELSE <<>>, FirstTen(warnings))

\* A build_app call in progress: the files of the state, the scratch
\* directory (temp_dir is "None" until mkdtemp returned), what is below it
\* and the writes made to it, the stages run so far, the outcomes of the two
\* steps, the exception raised inside the try block, and the result of the
\* return statement that was reached.
NoResult == [kind |-> "none"]
BuildCall(state_files) ==
    [pc |-> "called", files |-> state_files, temp_dir |-> "None", tree |-> EmptyDir,
     written |-> <<>>, ran |-> <<>>, install_result |-> NotRun, build_result |-> NotRun,
     raised |-> "none", result |-> NoResult]

BuildFrame == UNCHANGED <<fs, project_skills_dir, auto_inject_skills, state, pc, skills,
                          hook_outcome, last_call, sessions, model_calls>>

\* build_app is called: with no files it returns at once; else the scratch
\* directory is made, or mkdtemp raises and, temp_dir being None, the
\* finally clause removes nothing.
build_app_start ==
    /\ build.pc = "none"
    /\ \E state_files \in StateFileSets, fault \in {"none", "FileNotFoundError", "Exception"} :
         LET call == BuildCall(state_files)
         IN  build' =
               IF state_files = <<>>
               THEN [call EXCEPT !.pc = "returned", !.result = NoFilesResult]
               ELSE IF fault = "none"
               THEN [call EXCEPT !.pc = "writing", !.temp_dir = "exists", !.ran = <<"mkdtemp">>]
               ELSE [call EXCEPT !.pc = "returned", !.raised = fault,
                                 !.result = ExceptionResult(fault)]
    /\ BuildFrame

\* The files are written and package.json is looked for. One of the writes
\* can also fail for a reason outside the file set.
build_app_write ==
    /\ build.pc = "writing"
    /\ \E fault_at \in 1..Len(build.files), fault \in WriteFaults :
         LET w == WriteFiles(build.files, fault_at, fault)
             stepped == [build EXCEPT !.tree = w.tree, !.written = w.written,
                                      !.ran = Append(@, "write")]
         IN  build' =
               IF w.raised # "none"
               THEN [stepped EXCEPT !.pc = "cleanup", !.raised = w.raised,
                                    !.result = ExceptionResult(w.raised)]
               ELSE IF <<"package.json">> \notin DOMAIN w.tree
               THEN [stepped EXCEPT !.pc = "cleanup", !.result = NoPackageJsonResult]
               ELSE [stepped EXCEPT !.pc = "installing"]
    /\ BuildFrame

\* Mutant: the return code of the install step is not looked at.
BuildAppInstallIgnoresExit ==
    /\ build.pc = "installing"
    /\ \E outcome \in StepOutcomes(InstallOutputs) :
         LET stepped == [build EXCEPT !.install_result = outcome, !.ran = Append(@, "install")]
         IN  build' =
               IF outcome.kind = "raised"
               THEN [stepped EXCEPT !.pc = "cleanup", !.raised = outcome.exc,
                                    !.result = ExceptionResult(outcome.exc)]
               ELSE [stepped EXCEPT !.pc = "building"]
    /\ BuildFrame

\* npm install --legacy-peer-deps
build_app_install ==
    /\ build.pc = "installing"
    /\ \E outcome \in StepOutcomes(InstallOutputs) :
         LET stepped == [build EXCEPT !.install_result = outcome, !.ran = Append(@, "install")]
         IN  build' =
               IF outcome.kind = "raised"
               THEN [stepped EXCEPT !.pc = "cleanup", !.raised = outcome.exc,
                                    !.result = ExceptionResult(outcome.exc)]
               ELSE IF outcome.returncode # 0
               THEN [stepped EXCEPT !.pc = "cleanup",
                                    !.result = InstallFailedResult(FullText(outcome.output))]
               ELSE [stepped EXCEPT !.pc = "building"]
    /\ BuildFrame

\* npm run build, and the result made of its output.
build_app_build ==
    /\ build.pc = "building"
    /\ \E outcome \in StepOutcomes(BuildOutputs) :
         LET stepped == [build EXCEPT !.build_result = outcome, !.ran = Append(@, "build")]
         IN  build' =
               IF outcome.kind = "raised"
               THEN [stepped EXCEPT !.pc = "cleanup", !.raised = outcome.exc,
                                    !.result = ExceptionResult(outcome.exc)]
               ELSE [stepped EXCEPT !.pc = "cleanup",
                                    !.result = BuildResult(build.install_result.output, outcome)]
    /\ BuildFrame

\* Mutant: a failure of the removal is not ignored but reported as the
\* result.
BuildAppCleanupReportsFailure ==
    /\ build.pc = "cleanup"
    /\ \E removed \in BOOLEAN :
         build' = [build EXCEPT !.pc = "returned",
                                !.temp_dir = IF removed THEN "removed" ELSE "exists",
                                !.tree = IF removed THEN EmptyDir ELSE @,
                                !.ran = Append(@, "rmtree"),
                                !.result = IF removed THEN @ ELSE ExceptionResult("Exception")]
    /\ BuildFrame

\* The finally clause: shutil.rmtree removes the scratch directory, or
\* fails and is ignored; then build_app returns the result. The scratch
\* directory is the call's own (mkdtemp), so it is still there.
build_app_cleanup ==
    /\ build.pc = "cleanup"
    /\ \E removed \in BOOLEAN :
         build' = [build EXCEPT !.pc = "returned",
                                !.temp_dir = IF removed THEN "removed" ELSE "exists",
                                !.tree = IF removed THEN EmptyDir ELSE @,
                                !.ran = Append(@, "rmtree")]
    /\ BuildFrame

\* ------------------------------------------------------- specifications

\* Within one scope root the well-formed skills have distinct names.
DistinctNames(root) ==
    \A i, j \in 1..Len(root.dirs) :
        (i # j /\ root.dirs[i].kind = "ok" /\ root.dirs[j].kind = "ok")
            => root.dirs[i].name # root.dirs[j].name

InitCommon ==
    /\ state = EmptyState
    /\ pc = "idle"
    /\ skills = <<>>
    /\ hook_outcome = "none"
    /\ last_call = NoCall
    /\ sessions = [s \in SessionIds |-> IdleSession]
    /\ build = NoBuild
    /\ model_calls = <<>>

\* The loader's specification: every layout of the two scope roots, with
\* and without a project scope, and the session hook.
InitLoader ==
    /\ fs \in [user : RootsOf(DirKinds, {"ok"}), project : RootsOf(DirKinds, {"ok"})]
    /\ \A scope \in {"user", "project"} : DistinctNames(fs[scope])
    /\ project_skills_dir \in {"None", "set"}
    /\ project_skills_dir = "None" => fs.project = MissingRoot
    /\ auto_inject_skills = <<"frontend-design">>
    /\ InitCommon

NextLoader == before_agent_list \/ before_agent_load

SpecLoader == InitLoader /\ [][NextLoader]_vars

\* The session's specification: the middleware as create_frontend_agent
\* constructs it (a user scope only), with every auto-inject list; the hook
\* runs, sync or async, other actors change the skill files, and model
\* calls are made.
AutoInjectLists == SeqUpTo(SkillNames, MaxInject)

Init ==
    /\ fs \in [user : RootsOf({"nofile", "ok"}, {"ok"}), project : {MissingRoot}]
    /\ DistinctNames(fs.user)
    /\ project_skills_dir = "None"
    /\ auto_inject_skills \in AutoInjectLists
    /\ InitCommon

Next ==
    \/ before_agent_list
    \/ before_agent_load
    \/ abefore_agent_list
    \/ abefore_agent_load
    \/ abefore_agent_cancel
    \/ env_delete
    \/ env_chmod
    \/ env_corrupt
    \/ env_chmod_dir
    \/ wrap_model_call
    \/ wrap_model_return
    \/ awrap_model_call
    \/ awrap_model_return

Spec == Init /\ [][Next]_vars

\* Several sessions: the middleware as create_frontend_agent constructs it,
\* the skill files of the user scope, and the hooks and model calls of the
\* sessions interleaved with each other and with changes of the files.
InitSessions ==
    /\ fs = [user |-> [exists |-> TRUE,
                         dirs |-> <<SkillDir("ok", "frontend-design", "ok"),
                                    SkillDir("ok", "api-style", "ok")>>],
              project |-> MissingRoot]
    /\ project_skills_dir = "None"
    /\ auto_inject_skills \in AutoInjectLists
    /\ InitCommon

NextSessions ==
    \/ \E s \in SessionIds : session_before_agent_list(s)
    \/ \E s \in SessionIds : session_before_agent_load(s)
    \/ \E s \in SessionIds : session_abefore_agent_list(s)
    \/ \E s \in SessionIds : session_abefore_agent_load(s)
    \/ \E s \in SessionIds : session_wrap_model_call(s)
    \/ \E s \in SessionIds : session_awrap_model_call(s)
    \/ \E s \in SessionIds : session_model_return(s)
    \/ env_delete
    \/ env_chmod_dir

SpecSessions == InitSessions /\ [][NextSessions]_vars

\* An agent run and the runs after it in the same thread: the hook at the
\* start of a run, the model calls of the agent loop, and other actors
\* changing the skill files in between.
InitRun == InitSessions

NextRun ==
    \/ before_agent_list
    \/ before_agent_load
    \/ abefore_agent_list
    \/ abefore_agent_load
    \/ env_delete
    \/ env_chmod
    \/ run_wrap_model_call
    \/ run_awrap_model_call

SpecRun == InitRun /\ [][NextRun]_vars

\* The build_app tool: one call, with any file set in the state.
InitBuild ==
    /\ fs = [user |-> MissingRoot, project |-> MissingRoot]
    /\ project_skills_dir = "None"
    /\ auto_inject_skills = <<"frontend-design">>
    /\ InitCommon

NextBuild ==
    \/ build_app_start
    \/ build_app_write
    \/ build_app_install
    \/ build_app_build
    \/ build_app_cleanup

SpecBuild == InitBuild /\ [][NextBuild]_vars

\* ------------------------------------------------------ claims: the loader

\* The roots the hook scans.
ScannedRoots == {"user"} \cup (IF project_skills_dir = "set" THEN {"project"} ELSE {})

\* Subdirectory dir of scope holds a readable, well-formed SKILL.md.
IsGood(scope, dir) ==
    /\ fs[scope].exists
    /\ dir \in 1..Len(fs[scope].dirs)
    /\ fs[scope].dirs[dir].kind = "ok"
    /\ fs[scope].dirs[dir].read = "ok"

\* A scanned scope defines a skill named X.
Defines(scope, X) ==
    /\ scope \in ScannedRoots
    /\ \E dir \in 1..Len(fs[scope].dirs) : IsGood(scope, dir) /\ fs[scope].dirs[dir].name = X

\* P holds of the catalog list_skills returned to the hook and of the
\* catalog the hook stored in the session state.
CatalogHolds(P(_)) ==
    /\ pc = "sync_listed" => P(skills)
    /\ "skills_metadata" \in state.keys => P(state.skills_metadata)

StoredByHook == "skills_metadata" \in state.keys

OverrideLaw(catalog) ==
    \A X \in SkillNames :
        (Defines("user", X) /\ Defines("project", X)) =>
            /\ Cardinality({i \in 1..Len(catalog) : catalog[i].name = X}) = 1
            /\ \A i \in 1..Len(catalog) :
                 catalog[i].name = X =>
                    /\ catalog[i].path.scope = "project"
                    /\ IsGood("project", catalog[i].path.dir)
                    /\ FileAt(catalog[i].path).name = X
                    /\ catalog[i].description = DescriptionAt("project", catalog[i].path.dir)

\* C1: when the user scope and the project scope both define a skill named
\* X, the catalog returned by list_skills and stored in skills_metadata has
\* exactly one entry named X, and its description and path are those of the
\* project-scope definition.
C1_OverrideLaw == CatalogHolds(OverrideLaw)

C1_Witness ==
    /\ StoredByHook
    /\ \E X \in SkillNames : Defines("user", X) /\ Defines("project", X)

\* The well-formed skills of a scope, in directory-listing order.
GoodEntries(scope) ==
    LET n == Len(fs[scope].dirs)
        idx == SelectSeq([i \in 1..n |-> i], LAMBDA i : IsGood(scope, i))
    IN  IF scope \in ScannedRoots
        THEN [k \in 1..Len(idx) |->
                SkillMetadata(fs[scope].dirs[idx[k]].name, DescriptionAt(scope, idx[k]),
                              [scope |-> scope, dir |-> idx[k]])]
        ELSE <<>>

EntryNames(entries) == {entries[i].name : i \in 1..Len(entries)}

\* The user-scope skills in order, each replaced in place by the
\* project-scope skill of its name, then the project-scope skills of new
\* names in order.
ExpectedMerge ==
    LET U == GoodEntries("user")
        P == GoodEntries("project")
        Over(u) == IF u.name \in EntryNames(P)
                   THEN P[CHOOSE j \in 1..Len(P) : P[j].name = u.name]
                   ELSE u
    IN  [i \in 1..Len(U) |-> Over(U[i])]
        \o SelectSeq(P, LAMBDA p : p.name \notin EntryNames(U))

IsExpectedMerge(catalog) == catalog = ExpectedMerge

\* C2: the merged catalog lists the user-scope skills in directory-listing
\* order, each project-scope skill of the same name replacing the user-scope
\* one at its position, and the project-scope skills of new names appended.
C2_MergeOrdering == CatalogHolds(IsExpectedMerge)

\* user {frontend-design}, project {frontend-design, api-style} give
\* [frontend-design from the project, api-style].
C2_Witness ==
    /\ StoredByHook
    /\ project_skills_dir = "set"
    /\ fs.user = [exists |-> TRUE, dirs |-> <<SkillDir("ok", "frontend-design", "ok")>>]
    /\ fs.project = [exists |-> TRUE, dirs |-> <<SkillDir("ok", "frontend-design", "ok"),
                                                 SkillDir("ok", "api-style", "ok")>>]
    /\ state.skills_metadata =
         <<SkillMetadata("frontend-design", "desc-project-1", [scope |-> "project", dir |-> 1]),
           SkillMetadata("api-style", "desc-project-2", [scope |-> "project", dir |-> 2])>>

AllDirs == {[scope |-> s, dir |-> d] : s \in {"user", "project"}, d \in 1..MaxDirs}
GoodPaths == {p \in AllDirs : p.scope \in ScannedRoots /\ IsGood(p.scope, p.dir)}
EntryPaths(catalog) == {catalog[i].path : i \in 1..Len(catalog)}

\* The original statement of C3: one entry per subdirectory holding a
\* well-formed definition file, none for any other.
OnePerGoodDir(catalog) ==
    /\ EntryPaths(catalog) = GoodPaths
    /\ Len(catalog) = Cardinality(GoodPaths)

C3_OneEntryPerSubdirectory == CatalogHolds(OnePerGoodDir)

\* A well-formed user-scope skill whose name the project scope defines too.
Overridden(p) == p.scope = "user" /\ Defines("project", FileAt(p).name)

RobustDiscovery(catalog) ==
    /\ EntryPaths(catalog) = {p \in GoodPaths : ~Overridden(p)}
    /\ Len(catalog) = Cardinality(EntryPaths(catalog))
    /\ \A i \in 1..Len(catalog) :
         /\ catalog[i].name = FileAt(catalog[i].path).name
         /\ catalog[i].description = DescriptionAt(catalog[i].path.scope, catalog[i].path.dir)

\* C3 (amended): list_skills returns one entry per subdirectory holding a
\* well-formed definition file, except a user-scope one whose name the
\* project scope defines too; none for a subdirectory that lacks the file or
\* whose header is malformed or misses name or description; each entry
\* carries the name and description of its own file, whatever the broken
\* skills beside it; a missing scope root contributes no entry.
C3_RobustDiscovery == CatalogHolds(RobustDiscovery)

\* A scanned root holds a broken skill and a well-formed one, the other root
\* is missing, and the catalog has the well-formed one.
C3_Witness ==
    /\ StoredByHook
    /\ Len(state.skills_metadata) > 0
    /\ \E s \in ScannedRoots :
         /\ \E d \in 1..Len(fs[s].dirs) : fs[s].dirs[d].kind \in {"malformed", "noname", "nodesc"}
         /\ \E d \in 1..Len(fs[s].dirs) : IsGood(s, d)
    /\ \E s \in ScannedRoots : ~fs[s].exists

\* ----------------------------------------------- claims: the content cache

\* C4: in every state written by before_agent or abefore_agent, the keys of
\* skills_content are names of skills_metadata, and each stored SkillContent
\* carries the name and description of the catalog entry it was read from
\* (and the text of that entry's file).
C4_ContentSubsetOfCatalog ==
    StoredByHook =>
        /\ "skills_content" \in state.keys
        /\ \A n \in DOMAIN state.skills_content :
             \E i \in 1..Len(state.skills_metadata) :
                LET entry == state.skills_metadata[i]
                    stored == state.skills_content[n]
                IN  /\ entry.name = n
                    /\ stored.name = entry.name
                    /\ stored.description = entry.description
                    /\ stored.content[Len(stored.content)] = BodyAt(entry.path.scope, entry.path.dir)

\* A state written by a hook in which one skill has its content and another
\* has none.
C4_Witness ==
    /\ StoredByHook
    /\ hook_outcome = "returned"
    /\ DOMAIN state.skills_content # {}
    /\ \E i \in 1..Len(state.skills_metadata) :
          state.skills_metadata[i].name \notin DOMAIN state.skills_content

\* The file at path is there and can be read and decoded.
Readable(path) == FileAt(path).kind = "ok" /\ FileAt(path).read = "ok"

\* The step in which a hook reads the contents and returns.
LoadStep == pc \in {"sync_listed", "async_listed"} /\ pc' = "idle" /\ hook_outcome' # "cancelled"

\* text holds part as a run of consecutive pieces.
Contains(text, part) ==
    \E k \in 0..(Len(text) - Len(part)) : SubSeq(text, k + 1, k + Len(part)) = part

\* A model call is in progress: the handler runs with last_call.forwarded.
Called == last_call.kind = "call"
CallMetadata == StateGet(last_call.request.state, "skills_metadata", <<>>)
CallContent == StateGet(last_call.request.state, "skills_content", EmptyDict)
ForwardedText == last_call.forwarded.system_prompt.text

\* C5: whatever subset of the catalog's files is missing, unreadable or
\* undecodable when the contents are read, the hook raises nothing, omits
\* exactly those entries from skills_content, stores the text of every other
\* entry, keeps the failed entries in skills_metadata, and every model call
\* lists the entries that have no content.
C5_ReadFailuresAbsorbed ==
    /\ [][LoadStep =>
            /\ hook_outcome' = "returned"
            /\ state'.skills_metadata = skills
            /\ DOMAIN state'.skills_content =
                 {skills[i].name : i \in {j \in 1..Len(skills) : Readable(skills[j].path)}}
            /\ \A i \in 1..Len(skills) :
                 Readable(skills[i].path) =>
                    state'.skills_content[skills[i].name].content =
                       FileText(skills[i].path.scope, skills[i].path.dir, FileAt(skills[i].path))
         ]_vars
    /\ [](Called =>
            \A i \in 1..Len(CallMetadata) :
               CallMetadata[i].name \notin DOMAIN CallContent =>
                  Contains(ForwardedText,
                           <<"- **", CallMetadata[i].name, "**: ", CallMetadata[i].description>>))

\* A hook returned with one skill read and one not (its file missing or not
\* readable), and a model call listed the catalog.
C5_Witness ==
    /\ hook_outcome = "returned"
    /\ Called
    /\ last_call.request.state = state
    /\ \E i, j \in 1..Len(state.skills_metadata) :
         /\ state.skills_metadata[i].name \in DOMAIN state.skills_content
         /\ state.skills_metadata[j].name \notin DOMAIN state.skills_content
         /\ ~Readable(state.skills_metadata[j].path)

\* --------------------------------------------- claims: the prompt injector

\* The positions of the section headers in a text.
HeaderPositions(text) ==
    SelectSeq([i \in 1..Len(text) |-> i], LAMBDA i : text[i] = "## Skill: ")

\* The auto-inject names that have content, in the order of the list.
PresentInjected(content) ==
    SelectSeq(auto_inject_skills, LAMBDA n : n \in DOMAIN content)

\* C6: the injected text has one '## Skill: <name>' section, followed by
\* that skill's full content, for each name of the auto-inject list that is
\* in skills_content, in the order of the list, and nothing for a listed
\* name that is not in skills_content.
C6_AutoInjection ==
    Called =>
        LET text == ForwardedText
            at == HeaderPositions(text)
            present == PresentInjected(CallContent)
            end(k) == at[k] + 2 + Len(CallContent[present[k]].content)
        IN  /\ Len(at) = Len(present)
            /\ \A k \in 1..Len(present) :
                 /\ at[k] > 1
                 /\ text[at[k] - 1] = "\n\n"
                 /\ text[at[k] + 1] = present[k]
                 /\ text[at[k] + 2] = "\n\n"
                 /\ SubSeq(text, at[k] + 3, end(k)) = CallContent[present[k]].content
                 /\ IF k < Len(present) THEN at[k + 1] = end(k) + 2 ELSE Len(text) = end(k)

\* Two names are listed, both have content, and the list's order is not the
\* catalog's: two sections, in the list's order.
C6_Witness ==
    /\ Called
    /\ auto_inject_skills = <<"api-style", "frontend-design">>
    /\ DOMAIN CallContent = {"api-style", "frontend-design"}
    /\ Len(CallMetadata) = 2
    /\ CallMetadata[1].name = "frontend-design"
    /\ Len(HeaderPositions(ForwardedText)) = 2

\* The rendered documentation block and the injected sections of the call.
CallDocBlock == Format(SKILLS_SYSTEM_PROMPT, _format_skills_list(CallMetadata))
CallInjected == _format_injected_skills(CallContent)

\* C7: when the incoming request has a non-empty system prompt, the prompt
\* forwarded to the handler is the original system prompt, a two-newline
\* separator, the rendered documentation block and the injected sections,
\* in that order, with nothing else.
C7_CompositionWithPrompt ==
    (Called /\ Truthy(last_call.request.system_prompt)) =>
        last_call.forwarded.system_prompt =
            Str(last_call.request.system_prompt.text \o <<"\n\n">> \o CallDocBlock \o CallInjected)

C7_Witness ==
    /\ Called
    /\ Truthy(last_call.request.system_prompt)
    /\ Len(CallMetadata) > 0
    /\ Len(CallInjected) > 0

\* C8: when the incoming request has no system prompt, or an empty one, the
\* prompt forwarded to the handler is the documentation block followed by
\* the injected sections, with nothing before the block.
C8_CompositionWithoutPrompt ==
    (Called /\ ~Truthy(last_call.request.system_prompt)) =>
        last_call.forwarded.system_prompt = Str(CallDocBlock \o CallInjected)

\* A call with the empty system prompt, a catalog and an injected section.
C8_Witness ==
    /\ Called
    /\ last_call.request.system_prompt = Str(<<>>)
    /\ Len(CallMetadata) > 0
    /\ Len(CallInjected) > 0

\* The listing inside the forwarded prompt: what stands between the
\* "Available Skills" heading and the "How to Use Skills" heading.
CallListing ==
    LET text == ForwardedText
        a == CHOOSE i \in 1..Len(text) : text[i] = "**Available Skills:**"
        b == CHOOSE i \in 1..Len(text) : text[i] = "**How to Use Skills:**"
    IN  SubSeq(text, a + 2, b - 2)

\* The listing has one line per entry of the catalog, in catalog order,
\* each line made of the four pieces Line(entry).
ListingHasLines(listing, catalog, Line(_)) ==
    /\ Len(listing) = 5 * Len(catalog) - 1
    /\ \A i \in 1..Len(catalog) :
         /\ SubSeq(listing, 5 * i - 4, 5 * i - 1) = Line(catalog[i])
         /\ i < Len(catalog) => listing[5 * i] = "\n"

PlainLine(entry) == <<"- ", entry.name, ": ", entry.description>>
BoldLine(entry) == <<"- **", entry.name, "**: ", entry.description>>

\* The original statement of C9: each line is '- <name>: <description>'.
C9_ListingPlainLines ==
    (Called /\ CallMetadata # <<>>) => ListingHasLines(CallListing, CallMetadata, PlainLine)

\* C9 (amended): for every non-empty catalog the rendered listing has
\* exactly one line per catalog entry, in catalog order, each in the format
\* '- **<name>**: <description>'.
C9_ListingRendering ==
    (Called /\ CallMetadata # <<>>) => ListingHasLines(CallListing, CallMetadata, BoldLine)

C9_Witness ==
    /\ Called
    /\ Len(CallMetadata) = 2

\* C10: a model call whose session state has an empty skills_metadata, or
\* has no skills_metadata and skills_content keys at all, calls the handler
\* with a documentation block that holds the placeholder line in place of
\* the listing.
C10_PlaceholderDegradation ==
    \/ ~Called
    \/ ~(last_call.request.state.keys = {} \/ last_call.request.state.skills_metadata = <<>>)
    \/ /\ CallListing = <<"(No skills available yet.)">>
       /\ Contains(ForwardedText, Format(SKILLS_SYSTEM_PROMPT, <<"(No skills available yet.)">>))

\* A model call made before any hook ran.
C10_Witness ==
    /\ Called
    /\ last_call.request.state.keys = {}
    /\ hook_outcome = "none"

\* C11: in a session whose hook discovered zero skills, every prompt
\* forwarded to the handler holds the placeholder text in place of the
\* listing and has no '## Skill:' section, whatever the auto-inject list.
C11_EmptyCatalog ==
    (Called /\ "skills_metadata" \in last_call.request.state.keys /\ CallMetadata = <<>>) =>
        /\ CallListing = <<"(No skills available yet.)">>
        /\ HeaderPositions(ForwardedText) = <<>>
        /\ \A i \in 1..Len(ForwardedText) : ForwardedText[i] \notin SkillNames

\* The hook found no skill in a root that has subdirectories, the
\* auto-inject list names two skills, and a model call is made.
C11_Witness ==
    /\ Called
    /\ hook_outcome = "returned"
    /\ last_call.request.state = SkillsStateUpdate(<<>>, EmptyDict)
    /\ Len(auto_inject_skills) = 2
    /\ Len(fs.user.dirs) > 0

\* C12: every wrap_model_call and awrap_model_call calls the handler once,
\* with a request that equals the incoming one in every field except the
\* system prompt, which is the augmented text, and returns the handler's
\* response as it is.
C12_RequestPassThrough ==
    /\ Called =>
          /\ last_call.handler_calls = 1
          /\ DOMAIN last_call.forwarded = DOMAIN last_call.request
          /\ \A field \in DOMAIN last_call.request \ {"system_prompt"} :
                last_call.forwarded[field] = last_call.request[field]
          /\ last_call.forwarded.system_prompt =
                Str((IF Truthy(last_call.request.system_prompt)
                     THEN last_call.request.system_prompt.text \o <<"\n\n">> ELSE <<>>)
                    \o CallDocBlock \o CallInjected)
    /\ last_call.kind = "returned" =>
          /\ last_call.handler_calls = 1
          /\ last_call.returned = last_call.response

\* A model call returned the handler's second response.
C12_Witness ==
    /\ last_call.kind = "returned"
    /\ last_call.response = "response-b"
    /\ state.keys = StateKeys

\* --------------------------------------------------- claims: skill content

\* The stored contents, each with the catalog entry it was read from.
StoredContents ==
    {<<state.skills_content[state.skills_metadata[i].name], state.skills_metadata[i]>> :
        i \in {j \in 1..Len(state.skills_metadata) :
                  state.skills_metadata[j].name \in DOMAIN state.skills_content}}

\* The body of the file of a catalog entry, and the whole text of the file
\* as it was when the entry was listed: the header that gives the entry's
\* name and description, then the body.
BodyOf(entry) == <<BodyAt(entry.path.scope, entry.path.dir)>>
WholeTextOf(entry) ==
    FileText(entry.path.scope, entry.path.dir, SkillDir("ok", entry.name, "ok"))

\* A section of the forwarded prompt: the header of skill n, then text.
Section(n, text) == <<"\n\n", "## Skill: ", n, "\n\n">> \o text

\* The stored contents hold Text(entry), and so does the section of every
\* auto-injected skill in a forwarded prompt.
ContentIs(Text(_)) ==
    /\ StoredByHook => \A c \in StoredContents : c[1].content = Text(c[2])
    /\ Called =>
         \A i \in 1..Len(CallMetadata) :
            LET n == CallMetadata[i].name
            IN  (n \in DOMAIN CallContent /\ \E k \in 1..Len(auto_inject_skills) : auto_inject_skills[k] = n)
                   => Contains(ForwardedText, Section(n, Text(CallMetadata[i])))

\* The original statement of C14: content is the body of the definition
\* file, the metadata header excluded, and the text under each
\* '## Skill: <name>' section is the body only.
C14_ContentIsBody == ContentIs(BodyOf)

\* C14 (amended): content is the whole text of the definition file, the
\* metadata header followed by the body, and the text under each
\* '## Skill: <name>' section is that whole text.
C14_ContentIsWholeFile == ContentIs(WholeTextOf)

\* A hook stored the content of a skill and a model call injected it.
C14_Witness ==
    /\ StoredByHook
    /\ Called
    /\ last_call.request.state = state
    /\ StoredContents # {}
    /\ Len(CallInjected) > 0

\* ------------------------------------------------ claims: the two entry points

\* What a hook that listed `catalog` can end with, given the files as they
\* are: the state it leaves and how it ended.
HookResults(catalog) ==
    {LET r == _load_skill_contents(catalog, stat_raises)
     IN  IF r.raised = "none"
         THEN <<SkillsStateUpdate(catalog, r.contents), "returned">>
         ELSE <<state, "raised">> : stat_raises \in BOOLEAN}

\* The step in which a hook binds its local `skills`.
ListStep == pc' \in {"sync_listed", "async_listed"} /\ pc' # pc

\* C15: for the same skill directories before_agent and abefore_agent bind
\* the same catalog and return the same state update; for the same request
\* and state wrap_model_call and awrap_model_call forward the same system
\* prompt; the async hook runs the loader, then the content read, and only
\* then is the state written.
C15_SyncAsyncEquivalence ==
    /\ [][ListStep => (pc = "idle" /\ skills' = HookListSkills /\ state' = state)]_vars
    /\ [][LoadStep => <<state', hook_outcome'>> \in HookResults(skills)]_vars
    /\ [][state' # state => LoadStep]_vars
    /\ [](\A request \in Requests : WrapSystemPrompt(request) = AWrapSystemPrompt(request))
    /\ [](Called =>
            /\ last_call.forwarded = Override(last_call.request, WrapSystemPrompt(last_call.request))
            /\ last_call.forwarded = Override(last_call.request, AWrapSystemPrompt(last_call.request)))

\* A hook stored a catalog and contents, and awrap_model_call forwarded a
\* prompt with a listing and an injected section.
C15_Witness ==
    /\ pc = "async_call"
    /\ hook_outcome = "returned"
    /\ Len(CallMetadata) = 2
    /\ Len(CallInjected) > 0

\* ------------------------------------------------- claims: the session state

\* The entries of a catalog whose files can be read now, and the state a
\* scan that listed the catalog leaves: it is made of the catalog and the
\* files, and of nothing the state held before.
ReadableNames(catalog) ==
    {catalog[i].name : i \in {j \in 1..Len(catalog) : Readable(catalog[j].path)}}

ScanState(catalog) ==
    [keys |-> StateKeys,
     skills_metadata |-> catalog,
     skills_content |->
        [n \in ReadableNames(catalog) |->
            LET entry == catalog[CHOOSE i \in 1..Len(catalog) : catalog[i].name = n]
            IN  SkillContent(n, entry.description,
                             FileText(entry.path.scope, entry.path.dir, FileAt(entry.path)))]]

\* C16: every run of the hook recomputes skills_metadata and skills_content
\* from the directories alone. A run during which the directories do not
\* change returns, and leaves the state their scan gives, whatever the state
\* held; so a re-run over unchanged directories leaves the state as it is,
\* and a run after a change leaves nothing of an earlier run: a skill
\* removed from disk is in neither key.
C16_RerunSafety ==
    /\ [][(LoadStep /\ skills = HookListSkills) =>
            (hook_outcome' = "returned" /\ state' = ScanState(HookListSkills))]_vars
    /\ [][(LoadStep /\ skills = HookListSkills /\ state = ScanState(HookListSkills)) =>
            state' = state]_vars
    /\ [][(LoadStep /\ hook_outcome' = "returned") =>
            /\ state'.skills_metadata = skills
            /\ DOMAIN state'.skills_content = ReadableNames(skills)]_vars

\* A hook stored two skills, one was removed from disk, and a second run
\* of the hook listed the one that is left.
C16_Witness ==
    /\ pc = "sync_listed"
    /\ hook_outcome = "returned"
    /\ Len(state.skills_metadata) = 2
    /\ Cardinality(DOMAIN state.skills_content) = 2
    /\ Len(skills) = 1
    /\ skills = HookListSkills

\* The steps of a model call: up to the call of the handler, and the return.
CallStep == pc = "idle" /\ pc' \in {"sync_call", "async_call"}
ReturnStep == pc \in {"sync_call", "async_call"} /\ pc' = "idle"

\* C17: no model call changes skills_metadata or skills_content: the steps
\* of wrap_model_call and awrap_model_call leave the session state as it
\* is, the request they forward carries the state they were given, and
\* while a call is in progress the state is the one the last hook run left.
C17_StateReadOnly ==
    /\ [][(CallStep \/ ReturnStep) => state' = state]_vars
    /\ [][(pc \in {"sync_call", "async_call"} \/ pc' \in {"sync_call", "async_call"})
            => state' = state]_vars
    /\ [](Called =>
            /\ last_call.request.state = state
            /\ last_call.forwarded.state = state)

\* A model call returned in a session whose hook stored a catalog and
\* contents, and the state still holds them.
C17_Witness ==
    /\ last_call.kind = "returned"
    /\ pc = "idle"
    /\ hook_outcome = "returned"
    /\ Len(state.skills_metadata) = 2
    /\ Cardinality(DOMAIN state.skills_content) = 2

\* The step in which a hook is cancelled.
CancelStep == hook_outcome' = "cancelled" /\ (hook_outcome # "cancelled" \/ pc # pc')

\* The catalog and the contents of a state come from one load: every
\* content is the content of an entry of the catalog.
OneLoad(st) ==
    /\ st.keys = StateKeys
    /\ \A n \in DOMAIN st.skills_content :
         \E i \in 1..Len(st.skills_metadata) :
            /\ st.skills_metadata[i].name = n
            /\ st.skills_content[n].description = st.skills_metadata[i].description

\* C19: the hook writes skills_metadata and skills_content together, in
\* the one update it returns after both the loader and the content read
\* finished; a hook that is cancelled, before, between or during its two
\* offloaded steps, or that raises, leaves the state as it was; so the
\* state never holds one key without the other, nor a catalog of one load
\* with the contents of another.
C19_AtomicStateUpdate ==
    /\ [][state' # state =>
            /\ LoadStep
            /\ hook_outcome' = "returned"
            /\ state'.skills_metadata = skills
            /\ OneLoad(state')]_vars
    /\ [][(CancelStep \/ (LoadStep /\ hook_outcome' = "raised")) => state' = state]_vars
    /\ [](state.keys # {} => OneLoad(state))

\* abefore_agent was cancelled after it listed a catalog that differs from
\* the one an earlier run stored; the state holds the earlier run's pair.
C19_Witness ==
    /\ hook_outcome = "cancelled"
    /\ pc = "idle"
    /\ skills = <<>>
    /\ Len(state.skills_metadata) = 2
    /\ Cardinality(DOMAIN state.skills_content) = 2
    /\ Len(HookListSkills) = 1

\* ------------------------------------------------- claims: several sessions

\* Session s has a model call in progress.
SessionCalled(s) == sessions[s].last_call.kind = "call"

\* What the Prompt Injector reads for the call of session s: the system
\* prompt, skills_metadata and skills_content of the request (the
\* auto-inject list is the middleware's).
CallInputs(s) ==
    LET request == sessions[s].last_call.request
    IN  <<request.system_prompt,
          StateGet(request.state, "skills_metadata", <<>>),
          StateGet(request.state, "skills_content", EmptyDict)>>

SessionForwarded(s) == sessions[s].last_call.forwarded.system_prompt

\* C13: two invocations of the Prompt Injector with the same system prompt,
\* skills_metadata, skills_content and auto-inject list forward the same
\* system prompt to the handler, whatever else differs between them: the
\* session, the method (sync or async), the calls and hook runs made
\* before, the skill directories at the time of the call.
C13_RenderingDeterminism ==
    \A s, t \in SessionIds :
        (SessionCalled(s) /\ SessionCalled(t) /\ CallInputs(s) = CallInputs(t))
            => SessionForwarded(s) = SessionForwarded(t)

\* Two sessions are inside a model call with the same inputs, one through
\* wrap_model_call and one through awrap_model_call, and the skill
\* directories no longer hold what the sessions' catalogs list.
C13_Witness ==
    /\ SessionCalled("session-a") /\ SessionCalled("session-b")
    /\ CallInputs("session-a") = CallInputs("session-b")
    /\ sessions["session-a"].pc = "sync_call"
    /\ sessions["session-b"].pc = "async_call"
    /\ Len(CallInputs("session-a")[2]) = 2
    /\ DOMAIN CallInputs("session-a")[3] # {}
    /\ HookListSkills # CallInputs("session-a")[2]
    /\ Truthy(CallInputs("session-a")[1])

\* The prompt made of a system prompt, a session state and the middleware's
\* template and auto-inject list.
PromptOf(system_prompt, st) ==
    (IF Truthy(system_prompt) THEN system_prompt.text \o <<"\n\n">> ELSE <<>>)
    \o Format(SKILLS_SYSTEM_PROMPT, _format_skills_list(StateGet(st, "skills_metadata", <<>>)))
    \o _format_injected_skills(StateGet(st, "skills_content", EmptyDict))

\* C18: with the hook runs and model calls of several sessions interleaved,
\* every step that changes a session is a step of that session (its
\* position moves) and changes no other session; the prompt forwarded for a
\* model call of a session is made of the request's system prompt, that
\* session's own state and the middleware's configuration; and no step
\* changes the configuration.
C18_SessionIsolation ==
    /\ [][\A s \in SessionIds :
            sessions'[s] # sessions[s] =>
               /\ sessions'[s].pc # sessions[s].pc
               /\ \A t \in SessionIds \ {s} : sessions'[t] = sessions[t]]_vars
    /\ [][auto_inject_skills' = auto_inject_skills /\ project_skills_dir' = project_skills_dir]_vars
    /\ [](\A s \in SessionIds :
            SessionCalled(s) =>
               /\ sessions[s].last_call.request.state = sessions[s].state
               /\ SessionForwarded(s) =
                    Str(PromptOf(sessions[s].last_call.request.system_prompt, sessions[s].state)))

\* Two sessions hold different catalogs (one ran its hook before a skill
\* was removed, one after), both are inside a model call, and the prompts
\* forwarded for them differ.
C18_Witness ==
    /\ SessionCalled("session-a") /\ SessionCalled("session-b")
    /\ Len(sessions["session-a"].state.skills_metadata) = 2
    /\ Len(sessions["session-b"].state.skills_metadata) = 1
    /\ sessions["session-a"].last_call.request.system_prompt
         = sessions["session-b"].last_call.request.system_prompt
    /\ SessionForwarded("session-a") # SessionForwarded("session-b")

\* ---------------------------------------------------------- claims: build_app

\* The place of a stage among the stages run, 0 if it did not run.
RanAt(stage) ==
    IF \E i \in 1..Len(build.ran) : build.ran[i] = stage
    THEN CHOOSE i \in 1..Len(build.ran) : build.ran[i] = stage
    ELSE 0
Ran(stage) == RanAt(stage) > 0

\* The state holds a file that the loop writes at or below package.json in
\* the scratch directory.
HasPackageJson(state_files) ==
    \E i \in 1..Len(state_files) :
        /\ state_files[i][2] \in {"str", "dict"}
        /\ state_files[i][1].prefix # "/memory/"
        /\ state_files[i][1].parts[1] = "package.json"

HasResult == build.pc \in {"cleanup", "returned"} /\ build.result # NoResult

\* C21: every result of build_app with success=false has a non-empty
\* errors list, on every failure path: no files, no package.json, install
\* failure, build step exiting non-zero, timeout, npm missing, another
\* exception.
C21_FailureHasErrors ==
    (HasResult /\ ~build.result.success) => build.result.errors # <<>>

\* build_app returned after a build step that exited 1 and printed a line
\* the extraction does not take for an error: success=false, no errors.
C21_Witness ==
    /\ build.pc = "returned"
    /\ build.build_result.kind = "exited"
    /\ build.build_result.returncode = 1
    /\ build.build_result.output.tail = <<"Error: Build failed">>
    /\ ~build.result.success
    /\ build.result.errors = <<>>

\* The finally clause runs: the removal is attempted, it may fail, and
\* build_app returns what the return statement had made.
CleanupStep ==
    (build.pc = "cleanup" /\ build'.pc # "cleanup") =>
        /\ build'.pc = "returned"
        /\ build'.ran = Append(build.ran, "rmtree")
        /\ build'.result = build.result
        /\ build'.temp_dir \in {"removed", "exists"}

C23_SuccessMeansBothStepsPassed ==
    HasResult =>
       /\ build.result.success =>
             /\ Ran("install") /\ Ran("build")
             /\ build.install_result.kind = "exited" /\ build.install_result.returncode = 0
             /\ build.build_result.kind = "exited" /\ build.build_result.returncode = 0
             /\ build.result.errors = <<>>
       /\ Len(build.result.warnings) <= 10

\* build_app returned success=true for a build step that exited 0 and
\* printed an error-looking line and more than ten warning lines: the
\* errors are dropped and ten warnings are kept.
C23_Witness ==
    /\ build.pc = "returned"
    /\ build.result.success
    /\ build.build_result.kind = "exited"
    /\ ExtractErrors(FullText(build.build_result.output)) # <<>>
    /\ Len(ExtractWarnings(FullText(build.build_result.output))) > 10
    /\ build.result.errors = <<>>
    /\ Len(build.result.warnings) = 10

\* The keys of the dict build_app returns.
ResultKeys == {"success", "install_output", "build_output", "errors", "warnings"}

\* C24: an exception raised while the files are written or while the
\* install or the build step runs (the step timed out, npm is missing, any
\* other exception) is caught and returned as a result with success=false,
\* empty install_output and build_output, and one error message; none
\* leaves build_app, and every result returned has the five keys.
C24_FailuresBecomeResults ==
    build.pc # "none" =>
       /\ build.raised # "none" => build.pc \in {"cleanup", "returned"}
       /\ build.pc \in {"cleanup", "returned"} =>
          /\ DOMAIN build.result = ResultKeys
          /\ build.raised # "none" =>
                /\ ~build.result.success
                /\ build.result.install_output = <<>>
                /\ build.result.build_output = <<>>
                /\ Len(build.result.errors) = 1
                /\ build.result.warnings = <<>>

\* build_app returned after the build step raised an exception that is
\* neither a timeout nor a missing executable; the install step had exited
\* 0 with output, and the result carries none of it.
C24_Witness ==
    /\ build.pc = "returned"
    /\ build.raised = "Exception"
    /\ build.build_result = Raised("Exception")
    /\ build.install_result.kind = "exited"
    /\ FullText(build.install_result.output) # <<>>
    /\ build.result = Failure(<<"Build error: ", "Exception">>)

\* The files of the state that are not memory files and have string or
\* {content: lines} data, in the order of the state dict, and the write
\* each of them calls for: at its path without the leading "/app/" or "/".
AppFiles(state_files) ==
    SelectSeq(state_files, LAMBDA f : f[1].prefix # "/memory/" /\ f[2] \in {"str", "dict"})
AppWrites(state_files) ==
    LET app == AppFiles(state_files)
    IN  [i \in 1..Len(app) |-> Written(app[i][1].parts, ContentOf(app[i][1], app[i][2]))]

\* The contents the state holds under "/memory/".
MemoryContents(state_files) ==
    {ContentOf(state_files[i][1], state_files[i][2]) :
        i \in {j \in 1..Len(state_files) : state_files[j][1].prefix = "/memory/"}}

\* Nothing written, and nothing in the scratch directory, is a memory file.
NoMemoryWritten ==
    /\ \A i \in 1..Len(build.written) :
          build.written[i].content \notin MemoryContents(build.files)
    /\ \A p \in DOMAIN build.tree :
          /\ build.tree[p].content \notin MemoryContents(build.files)
          /\ p[1] # "memory"

\* C25, as stated: for every state file set, no file whose state path
\* starts with "/memory/" is written, and every other file with string or
\* {content: lines} data is written at its path with a leading "/app/" (or
\* else a leading "/") removed.
C25_AppFilesWritten ==
    (build.pc # "none" /\ Ran("write")) =>
       /\ NoMemoryWritten
       /\ \A i \in 1..Len(AppWrites(build.files)) :
             \E j \in 1..Len(build.written) : build.written[j] = AppWrites(build.files)[i]

\* C25, amended: no memory file is written; the other files with string or
\* {content: lines} data are written in the order of the state dict, each at
\* its path with the leading "/app/" (or else "/") removed, up to the first
\* write that raises; the files after that one are not written and the call
\* returns the error. When no write raises all of them are written.
C25_AppFilesWrittenUntilRaise ==
    (build.pc # "none" /\ Ran("write")) =>
       /\ NoMemoryWritten
       /\ Len(build.written) <= Len(AppWrites(build.files))
       /\ build.written = SubSeq(AppWrites(build.files), 1, Len(build.written))
       /\ Len(build.written) < Len(AppWrites(build.files)) =>
             /\ ~Ran("install")
             /\ build.raised # "none"
             /\ build.result = ExceptionResult(build.raised)
       /\ (build.raised = "none" \/ Ran("install")) =>
             build.written = AppWrites(build.files)

\* The state holds a memory file and an app file at the same path below
\* their prefixes; the write stage has run and wrote the app file only.
C25_Witness ==
    /\ build.pc # "none"
    /\ Ran("write")
    /\ Len(build.files) = 2
    /\ build.files[1] = <<[prefix |-> "/memory/", parts |-> <<"package.json">>], "str">>
    /\ build.files[2][1] = [prefix |-> "/app/", parts |-> <<"package.json">>]
    /\ build.files[2][2] = "dict"
    /\ build.written = <<Written(<<"package.json">>, ContentOf(build.files[2][1], "dict"))>>
    /\ DOMAIN build.tree = {<<"package.json">>}

\* ------------------------------------------- claims: races and repetition

\* The skills of the hook's catalog whose file is gone or cannot be read
\* any more: another actor changed it after list_skills returned.
LostSince(catalog) == {i \in 1..Len(catalog) : ~Readable(catalog[i].path)}

\* C26: if a skill's definition file is deleted or made unreadable by
\* another actor after list_skills returned, the hook still completes
\* without raising, with that skill in skills_metadata and not in
\* skills_content, and every later model call lists it and injects no
\* section for it.
C26_RaceAbsorbed ==
    /\ [][(LoadStep /\ LostSince(skills) # {}) =>
            /\ hook_outcome' = "returned"
            /\ \A i \in LostSince(skills) :
                  /\ \E j \in 1..Len(state'.skills_metadata) :
                        state'.skills_metadata[j] = skills[i]
                  /\ skills[i].name \notin DOMAIN state'.skills_content
         ]_vars
    /\ [](Called =>
            \A i \in 1..Len(CallMetadata) :
               CallMetadata[i].name \notin DOMAIN CallContent =>
                  /\ Contains(ForwardedText,
                              <<"- **", CallMetadata[i].name, "**: ", CallMetadata[i].description>>)
                  /\ ~Contains(ForwardedText, <<"## Skill: ", CallMetadata[i].name>>))

\* A hook listed a skill, another actor took the search permission from its
\* subdirectory, and the hook raised: the state has no catalog.
C26_Witness ==
    /\ hook_outcome = "raised"
    /\ pc = "idle"
    /\ state = EmptyState
    /\ \E d \in 1..Len(fs.user.dirs) : fs.user.dirs[d].read = "denied"

\* How many times a text holds the heading of the skills documentation.
BlockCount(text) == Cardinality({i \in 1..Len(text) : text[i] = "## Skills System"})

\* C27: wrap_model_call never alters the incoming request and reads only
\* the session-state snapshot, not the disk; so over the model calls of a
\* session whose incoming requests carry the same base system prompt and
\* the same snapshot, every forwarded prompt is the same and holds the
\* skills documentation block exactly once, even if the skill files change
\* on disk between the calls.
C27_NoAccumulation ==
    /\ \A i \in 1..Len(model_calls) :
          /\ model_calls[i].request.system_prompt \in SystemPrompts
          /\ BlockCount(model_calls[i].forwarded.system_prompt.text) = 1
          /\ model_calls[i].forwarded.state = model_calls[i].request.state
    /\ (/\ Len(model_calls) = 2
        /\ model_calls[1].request.system_prompt = model_calls[2].request.system_prompt
        /\ model_calls[1].request.state = model_calls[2].request.state)
          => model_calls[2].forwarded = model_calls[1].forwarded

\* Two model calls of a session with the same base system prompt and the
\* same snapshot, which lists two skills; between the calls a skill file was
\* deleted or made unreadable.
C27_Witness ==
    /\ Len(model_calls) = 2
    /\ model_calls[1].request = model_calls[2].request
    /\ Truthy(model_calls[1].request.system_prompt)
    /\ Len(model_calls[2].request.state.skills_metadata) = 2
    /\ model_calls[1].disk # model_calls[2].disk
    /\ model_calls[2].forwarded = model_calls[1].forwarded

====
